---------------------------- MODULE Spec2Model ----------------------------
(***************************************************************************)
(* Quiz generation, parsing, reconciliation and grading of the Academic    *)
(* AI Assistant: the "Quiz Generator" tab of quiz_analyze_page             *)
(* (academic_ai_assistant.py) and the stand-alone TestAgent.py script.     *)
(*                                                                         *)
(* Text is a sequence of one-character strings, so that str.split,         *)
(* str.strip, re.split and re.findall are modelled on the characters the   *)
(* code sees.                                                              *)
(***************************************************************************)
EXTENDS Integers, Sequences, FiniteSets, TLC

(***************************************************************************)
(* Bounds of the model.                                                    *)
(***************************************************************************)
\* largest requested number of questions (the code allows up to 20)
MaxN == 3
\* how many deviations from the prompt's layout one model output may hold
MaxDefects == 2
\* longest quiz the graders are run on
MaxScoreLen == 5
\* rows the quizzes table may hold
MaxRows == 1
\* rows of table quizzes the dashboard reads
MaxAttempts == 3

(***************************************************************************)
(* Characters and Python's string primitives.                              *)
(***************************************************************************)
NL == "\n"

Digits == <<"0", "1", "2", "3", "4", "5", "6", "7", "8", "9">>

IsDigit(c) == \E k \in 1..10 : Digits[k] = c

DigitVal(c) == (CHOOSE k \in 1..10 : Digits[k] = c) - 1

IsSpace(c) == c \in {" ", NL, "\t"}

\* str.lower() on the characters that occur in the modelled texts
ToLower(c) ==
    CASE c = "A" -> "a"
      [] c = "B" -> "b"
      [] c = "C" -> "c"
      [] c = "D" -> "d"
      [] c = "K" -> "k"
      [] c = "Q" -> "q"
      [] c = "W" -> "w"
      [] OTHER -> c

\* s[p], or a character that matches nothing when p is past the end
At(s, p) == IF p >= 1 /\ p <= Len(s) THEN s[p] ELSE "<eos>"

RECURSIVE LStripFrom(_, _)
LStripFrom(s, p) ==
    IF p <= Len(s) /\ IsSpace(s[p]) THEN LStripFrom(s, p + 1) ELSE p

RECURSIVE RStripFrom(_, _)
RStripFrom(s, p) ==
    IF p >= 1 /\ IsSpace(s[p]) THEN RStripFrom(s, p - 1) ELSE p

\* str.strip()
Strip(s) == SubSeq(s, LStripFrom(s, 1), RStripFrom(s, Len(s)))

\* whether the literal pat occurs in s at position p
MatchAt(s, p, pat) ==
    /\ p + Len(pat) - 1 <= Len(s)
    /\ \A k \in 1..Len(pat) : s[p + k - 1] = pat[k]

\* "pat in s"
Contains(s, pat) == \E p \in 1..Len(s) : MatchAt(s, p, pat)

\* the least element of a set of positions, 0 when there is none
First(S) == IF S = {} THEN 0 ELSE CHOOSE p \in S : \A q \in S : p <= q

\* str.split(pat): every part, in order
RECURSIVE SplitOnFrom(_, _, _)
\* the parts from start on, the next occurrence of pat being at p (0: none)
SplitOnAt(s, pat, start, p) ==
    IF p = 0 THEN <<SubSeq(s, start, Len(s))>>
    ELSE <<SubSeq(s, start, p - 1)>> \o SplitOnFrom(s, pat, p + Len(pat))

SplitOnFrom(s, pat, start) ==
    SplitOnAt(s, pat, start, First({q \in start..Len(s) : MatchAt(s, q, pat)}))

SplitOn(s, pat) == SplitOnFrom(s, pat, 1)

\* str.isdigit()
IsDigitStr(s) == Len(s) > 0 /\ \A k \in 1..Len(s) : IsDigit(s[k])

\* int(s) of a string of digits
RECURSIVE ParseInt(_)
ParseInt(s) ==
    IF Len(s) = 0 THEN 0
    ELSE 10 * ParseInt(SubSeq(s, 1, Len(s) - 1)) + DigitVal(s[Len(s)])

\* str(n), n >= 0
RECURSIVE IntToChars(_)
IntToChars(n) ==
    IF n < 10 THEN <<Digits[n + 1]>>
    ELSE IntToChars(n \div 10) \o <<Digits[(n % 10) + 1]>>

\* the index of the last digit of the run of digits that starts at p (p - 1: no digit)
RECURSIVE DigitsEnd(_, _)
DigitsEnd(s, p) ==
    IF p <= Len(s) /\ IsDigit(s[p]) THEN DigitsEnd(s, p + 1) ELSE p - 1

\* the index past the run of whitespace that starts at p
RECURSIVE SpacesEnd(_, _)
SpacesEnd(s, p) ==
    IF p <= Len(s) /\ IsSpace(s[p]) THEN SpacesEnd(s, p + 1) ELSE p

(***************************************************************************)
(* The parser: the same statements in parse_mcq_response (TestAgent.py)    *)
(* and inline in quiz_analyze_page.                                        *)
(***************************************************************************)
AnswerKeyMarker == <<"A", "n", "s", "w", "e", "r", " ", "K", "e", "y", ":">>

NoMatch == [ok |-> FALSE, num |-> <<>>, letter |-> "", end |-> 0]

\* Q?(\d+)\. tried at position q
NumDot(s, q0, de) ==
    IF de >= q0 /\ At(s, de + 1) = "."
    THEN [ok |-> TRUE, num |-> SubSeq(s, q0, de), letter |-> "", end |-> de + 2]
    ELSE NoMatch

NumDotFrom(s, q0) == NumDot(s, q0, DigitsEnd(s, q0))

NumDotAt(s, q) == NumDotFrom(s, IF At(s, q) = "Q" THEN q + 1 ELSE q)

\* (?:^|\n)(?:Q?(\d+)\.) tried at position p: ^ is the start of the string only
BoundaryAt(s, p) ==
    IF p = 1 /\ NumDotAt(s, p).ok THEN NumDotAt(s, p)
    ELSE IF At(s, p) = NL THEN NumDotAt(s, p + 1)
    ELSE NoMatch

\* re.split(r'(?:^|\n)(?:Q?(\d+)\.)', s): texts and captured numbers, alternating
RECURSIVE ReSplitFrom(_, _)
\* the pieces from start on, the next match m being at p (0: none)
ReSplitAt(s, start, p, m) ==
    IF p = 0 THEN <<SubSeq(s, start, Len(s))>>
    ELSE <<SubSeq(s, start, p - 1), m.num>> \o ReSplitFrom(s, m.end)

ReSplitNext(s, start, p) == ReSplitAt(s, start, p, BoundaryAt(s, p))

ReSplitFrom(s, start) ==
    ReSplitNext(s, start, First({q \in start..Len(s) : BoundaryAt(s, q).ok}))

question_blocks(question_part) == ReSplitFrom(question_part, 1)

\* f"Q{current_q}. {block.strip()}"
FormatQuestion(current_q, block) ==
    <<"Q">> \o IntToChars(current_q) \o <<".", " ">> \o Strip(block)

\* the loop over question_blocks; current_q = -1 stands for None
RECURSIVE ProcessBlocks(_, _, _, _)
ProcessBlocks(blocks, i, current_q, questions) ==
    IF i > Len(blocks) THEN questions
    ELSE LET block == blocks[i]
         IN  IF Len(block) = 0
             THEN ProcessBlocks(blocks, i + 1, current_q, questions)
             ELSE IF IsDigitStr(block)
             THEN ProcessBlocks(blocks, i + 1, ParseInt(block), questions)
             ELSE IF current_q # -1
             THEN ProcessBlocks(blocks, i + 1, -1,
                                Append(questions, FormatQuestion(current_q, block)))
             ELSE ProcessBlocks(blocks, i + 1, current_q, questions)

ExtractQuestions(question_part) ==
    ProcessBlocks(question_blocks(question_part), 1, -1, <<>>)

\* Q?(\d+)\.?\s*([a-d]) with re.IGNORECASE, tried at position q
\* the pattern without re.IGNORECASE
AnswerEntryCaseSensitive(s, q0, de, l) ==
    IF de >= q0 /\ At(s, l) \in {"a", "b", "c", "d"}
    THEN [ok |-> TRUE, num |-> SubSeq(s, q0, de), letter |-> s[l], end |-> l + 1]
    ELSE NoMatch

AnswerEntry(s, q0, de, l) ==
    IF de >= q0 /\ ToLower(At(s, l)) \in {"a", "b", "c", "d"}
    THEN [ok |-> TRUE, num |-> SubSeq(s, q0, de), letter |-> s[l], end |-> l + 1]
    ELSE NoMatch

AnswerEntryDigits(s, q0, de) ==
    AnswerEntry(s, q0, de, SpacesEnd(s, IF At(s, de + 1) = "." THEN de + 2 ELSE de + 1))

AnswerEntryFrom(s, q0) == AnswerEntryDigits(s, q0, DigitsEnd(s, q0))

AnswerEntryAt(s, q) == AnswerEntryFrom(s, IF At(s, q) \in {"Q", "q"} THEN q + 1 ELSE q)

EntryAt(s, p) ==
    IF p = 1 /\ AnswerEntryAt(s, p).ok THEN AnswerEntryAt(s, p)
    ELSE IF At(s, p) = NL THEN AnswerEntryAt(s, p + 1)
    ELSE NoMatch

\* re.findall(r'(?:^|\n)(?:Q?(\d+)\.?\s*([a-d]))', s, re.IGNORECASE)
RECURSIVE FindAllFrom(_, _)
\* the entries from the match m on (m.ok false: none)
FindAllAt(s, m) ==
    IF ~m.ok THEN <<>>
    ELSE <<[num |-> m.num, letter |-> m.letter]>> \o FindAllFrom(s, m.end)

FindAllNext(s, p) == FindAllAt(s, IF p = 0 THEN NoMatch ELSE EntryAt(s, p))

FindAllFrom(s, start) ==
    FindAllNext(s, First({q \in start..Len(s) : EntryAt(s, q).ok}))

answer_entries(answer_part) == FindAllFrom(answer_part, 1)

\* a mapping that keeps the first entry of an ordinal
RECURSIVE DictFromFirstWins(_, _, _)
DictFromFirstWins(entries, i, d) ==
    IF i > Len(entries) THEN d
    ELSE LET k == ParseInt(entries[i].num)
             v == ToLower(entries[i].letter)
         IN  DictFromFirstWins(entries, i + 1,
                [x \in DOMAIN d \cup {k} |-> IF x \in DOMAIN d THEN d[x] ELSE v])

\* {int(num): letter.lower() for num, letter in answer_entries}: the last entry wins
RECURSIVE DictFrom(_, _, _)
DictFrom(entries, i, d) ==
    IF i > Len(entries) THEN d
    ELSE LET k == ParseInt(entries[i].num)
             v == ToLower(entries[i].letter)
         IN  DictFrom(entries, i + 1,
                      [x \in DOMAIN d \cup {k} |-> IF x = k THEN v ELSE d[x]])

answer_dict(answer_part) == DictFrom(answer_entries(answer_part), 1, <<>>)

\* for i in range(1, expected_count + 1): append answer_dict[i] or ""
RECURSIVE KeyLoop(_, _, _, _)
KeyLoop(d, i, expected_count, answer_key) ==
    IF i > expected_count THEN answer_key
    ELSE KeyLoop(d, i + 1, expected_count,
                 Append(answer_key, IF i \in DOMAIN d THEN d[i] ELSE ""))

\* the loop run as range(expected_count): ordinals counted from 0
BuildAnswerKeyFromZero(d, expected_count) == KeyLoop(d, 0, expected_count - 1, <<>>)

BuildAnswerKey(d, expected_count) == KeyLoop(d, 1, expected_count, <<>>)

\* xs[:n]
Take(xs, n) == SubSeq(xs, 1, IF n < Len(xs) THEN n ELSE Len(xs))

\* parts[0].strip(), parts[1].strip() if len(parts) > 1 else ""
QuestionPart(response) == Strip(SplitOn(response, AnswerKeyMarker)[1])

PartsAnswer(parts) == IF Len(parts) > 1 THEN Strip(parts[2]) ELSE <<>>

AnswerPart(response) == PartsAnswer(SplitOn(response, AnswerKeyMarker))

\* the questions, the mapping and the key made of one model output
Parsed(questions, d, expected_count) ==
    [questions   |-> questions,
     answer_dict |-> d,
     answer_key  |-> BuildAnswerKey(d, expected_count)]

\* the try-block of quiz_analyze_page, up to the validation of the result
InlineParse(mcq_response, num_questions) ==
    Parsed(ExtractQuestions(QuestionPart(mcq_response)),
           answer_dict(AnswerPart(mcq_response)), num_questions)

\* return questions[:expected_count], answer_key[:expected_count]
Returned(r, expected_count) ==
    [raised      |-> FALSE,
     questions   |-> Take(r.questions, expected_count),
     answer_dict |-> r.answer_dict,
     answer_key  |-> Take(r.answer_key, expected_count)]

\* parse_mcq_response(response, expected_count)
parse_mcq_response(response, expected_count) ==
    IF Len(response) = 0 \/ ~Contains(response, AnswerKeyMarker)
    THEN [raised |-> TRUE, questions |-> <<>>, answer_dict |-> <<>>, answer_key |-> <<>>]
    ELSE Returned(InlineParse(response, expected_count), expected_count)

(***************************************************************************)
(* What the generative model may return.  The prompt (generate_mcqs and    *)
(* quiz_analyze_page) fixes the layout                                     *)
(*     Qn. text / a) .. / b) .. / c) .. / d) ..   Answer Key:   n. letter  *)
(* and the model is a black box, so an output is described by the form of  *)
(* each question block and answer line and by the number of markers, and   *)
(* rendered to the text the parser reads.                                  *)
(***************************************************************************)
BlockForms == {"ok", "noopts", "empty", "absent"}

AnswerForms == {"ok", "upper", "absent"}

\* the letter the model gives for question i (the key a, a, c, d, b repeated)
KeyLetter(i) == <<"a", "a", "c", "d", "b">>[((i - 1) % 5) + 1]

ToUpper(c) ==
    CASE c = "a" -> "A"
      [] c = "b" -> "B"
      [] c = "c" -> "C"
      [] c = "d" -> "D"
      [] OTHER -> c

OptionLine(l) == <<l, ")", " ", "x", NL>>

\* one question block in the prompt's layout, or a malformed one
RenderBlock(i, form) ==
    CASE form = "ok" ->
            <<"Q">> \o IntToChars(i) \o <<".", " ", "W">> \o IntToChars(i) \o <<"?", NL>>
            \o OptionLine("a") \o OptionLine("b") \o OptionLine("c") \o OptionLine("d")
      [] form = "noopts" ->
            <<"Q">> \o IntToChars(i) \o <<".", " ", "W">> \o IntToChars(i) \o <<"?", NL>>
      [] form = "twoopts" ->
            <<"Q">> \o IntToChars(i) \o <<".", " ", "W">> \o IntToChars(i) \o <<"?", NL>>
            \o OptionLine("a") \o OptionLine("b")
      [] form = "upperopts" ->
            <<"Q">> \o IntToChars(i) \o <<".", " ", "W">> \o IntToChars(i) \o <<"?", NL>>
            \o OptionLine("A") \o OptionLine("B") \o OptionLine("C") \o OptionLine("D")
      [] form = "empty" -> <<"Q">> \o IntToChars(i) \o <<".", NL>>
      [] OTHER -> <<>>

RenderAnswer(i, form) ==
    CASE form = "ok" -> IntToChars(i) \o <<".", " ", KeyLetter(i), NL>>
      [] form = "upper" -> IntToChars(i) \o <<".", " ", ToUpper(KeyLetter(i)), NL>>
      [] form = "twice" ->
            IntToChars(i) \o <<".", " ", "b", NL>>
            \o IntToChars(i) \o <<".", " ", ToUpper(KeyLetter(i)), NL>>
      [] OTHER -> <<>>

RECURSIVE RenderBlocks(_, _)
RenderBlocks(blocks, i) ==
    IF i > Len(blocks) THEN <<>>
    ELSE RenderBlock(i, blocks[i]) \o RenderBlocks(blocks, i + 1)

\* the answer lines; a second marker, when there is one, follows the first line
RECURSIVE RenderAnswers(_, _, _)
RenderAnswers(answers, i, markers) ==
    IF i > Len(answers) THEN <<>>
    ELSE RenderAnswer(i, answers[i])
         \o (IF i = 1 /\ markers = 2 THEN AnswerKeyMarker \o <<NL>> ELSE <<>>)
         \o RenderAnswers(answers, i + 1, markers)

Render(o) ==
    RenderBlocks(o.blocks, 1)
    \o (IF o.markers >= 1 THEN AnswerKeyMarker \o <<NL>> ELSE <<>>)
    \o RenderAnswers(o.answers, 1, o.markers)

\* how far output o deviates from the well-formed output for n questions
Defects(o, n) ==
    Cardinality({i \in 1..Len(o.blocks) : o.blocks[i] # "ok"})
    + Cardinality({i \in 1..Len(o.answers) : o.answers[i] \notin {"ok", "upper"}})
    + (IF Len(o.blocks) = n THEN 0 ELSE 1) + (IF Len(o.answers) = n THEN 0 ELSE 1)
    + (IF o.markers = 1 THEN 0 ELSE 1)

OutputShapes(n) ==
    UNION {[blocks : [1..nb -> BlockForms], answers : [1..na -> AnswerForms],
            markers : 0..2] : nb \in 0..(n + 1), na \in 0..(n + 1)}

\* the outputs the model may give when asked for n questions
Outputs(n) == {o \in OutputShapes(n) : Defects(o, n) <= MaxDefects}

\* the output that follows the prompt's layout exactly
WellFormed(o, n) ==
    /\ Len(o.blocks) = n /\ Len(o.answers) = n /\ o.markers = 1
    /\ \A i \in 1..n : o.blocks[i] = "ok" /\ o.answers[i] \in {"ok", "upper"}

(***************************************************************************)
(* Grading.  A percentage is the exact quotient num / den: for up to 20    *)
(* questions the float (score / total) * 100 truncates and rounds as the   *)
(* exact quotient does.                                                    *)
(***************************************************************************)
Letters == {"a", "b", "c", "d"}

Min(a, b) == IF a < b THEN a ELSE b

\* the labels of the options re.findall(r'([a-d])\)(.*?)(?=\s*[a-d]\)|$)') finds
RECURSIVE OptionLabelsFrom(_, _)
\* the pattern anchored at the start of the text: ^([a-d])\)
OptionLabelsAtStart(question, p) ==
    IF p = 1 THEN <<question[p]>> ELSE <<>>

OptionLabelsAt(question, p) ==
    IF p = 0 THEN <<>>
    ELSE <<question[p]>> \o OptionLabelsFrom(question, p + 2)

OptionLabelsFrom(question, start) ==
    OptionLabelsAt(question, First({q \in start..(Len(question) - 1) :
                                       question[q] \in Letters /\ question[q + 1] = ")"}))

\* line.strip() starts with a), b), c) or d)
StartsWithLabel(line) ==
    At(Strip(line), 1) \in Letters /\ At(Strip(line), 2) = ")"

\* the old method: the lines after the first "a)" that start with a label
FallbackOptions(question) ==
    IF ~Contains(question, <<"a", ")">>) THEN <<>>
    ELSE LET options_lines ==
                SelectSeq(SplitOn(SplitOn(question, <<"a", ")">>)[2], <<NL>>),
                          StartsWithLabel)
         IN  [k \in 1..Len(options_lines) |-> Strip(options_lines[k])[1]]

\* options: what the pattern finds and, if that is nothing, the old method
options(question) ==
    IF Len(OptionLabelsFrom(question, 1)) > 0 THEN OptionLabelsFrom(question, 1)
    ELSE FallbackOptions(question)

\* no check for unanswered questions
unansweredIgnored(user_answers) == {}

\* [i+1 for i, ans in enumerate(user_answers) if not ans]
unanswered(user_answers) == {i \in 1..Len(user_answers) : user_answers[i] = ""}

\* Submit Quiz: for user_ans, correct_ans in zip(...): if user_ans.lower() == correct_ans.lower()
RECURSIVE SubmitLoop(_, _, _, _)
SubmitLoop(user_answers, answer_key, i, score) ==
    IF i > Min(Len(user_answers), Len(answer_key)) THEN score
    ELSE SubmitLoop(user_answers, answer_key, i + 1,
                    IF ToLower(user_answers[i]) = ToLower(answer_key[i])
                    THEN score + 1 ELSE score)

SubmitScore(user_answers, answer_key) == SubmitLoop(user_answers, answer_key, 1, 0)

\* Evaluate Answers: for i in range(len(questions)): if user_answers[i] == answer_key[i]
RECURSIVE EvaluateLoop(_, _, _, _, _)
EvaluateLoop(total, user_answers, answer_key, i, score) ==
    IF i > total THEN score
    ELSE EvaluateLoop(total, user_answers, answer_key, i + 1,
                      IF user_answers[i] = answer_key[i] THEN score + 1 ELSE score)

EvaluateScore(total, user_answers, answer_key) ==
    EvaluateLoop(total, user_answers, answer_key, 1, 0)

\* analyze_performance: sum(1 for ua, ca in zip(user_answers, correct_answers) if ua == ca)
PerformanceScore(user_answers, correct_answers) ==
    Cardinality({i \in 1..Min(Len(user_answers), Len(correct_answers)) :
                    user_answers[i] = correct_answers[i]})

\* (score / total) * 100, total > 0
Percentage(score, total) == [num |-> score * 100, den |-> total]

\* int(x), x >= 0
IntOf(x) == x.num \div x.den

\* round(x), x >= 0: Python rounds a half to the even neighbour
PyRound(x) ==
    LET q == x.num \div x.den
        r == x.num % x.den
    IN  IF 2 * r < x.den THEN q
        ELSE IF 2 * r > x.den THEN q + 1
        ELSE IF q % 2 = 0 THEN q ELSE q + 1

\* a value stored in a NUMERIC(5,2) column: rounded to two decimals
Numeric52(x) == [num |-> (200 * x.num + x.den) \div (2 * x.den), den |-> 100]

\* whether the stored percentage x is the whole number k
IsWhole(x, k) == x.num = k * x.den

(***************************************************************************)
(* State.                                                                  *)
(***************************************************************************)
VARIABLES
    \* quiz_analyze_page: st.session_state and the quizzes table
    has_quiz,            \* 'quiz_questions' in st.session_state
    quiz_questions,
    quiz_answer_key,
    quiz_user_answers,
    db,                  \* the rows of table quizzes, in insertion order
    report,              \* what the last run of the page showed
    model_called,        \* whether the last run invoked the generative model
    \* TestAgent.py: st.session_state
    ta_has_quiz,         \* "answer_key" in st.session_state
    ta_questions,
    ta_answer_key,
    ta_user_answers,
    ta_num_questions,
    ta_report,           \* what the last run of the script showed
    ta_model_called,
    \* the parser run on one model output
    p_n, p_out, p_inline, p_mcq,
    \* the graders run on one answer key and one list of answers
    s_key, s_answers, s_result,
    \* dashboard_page: the tables it reads and what its last run showed
    activity,            \* per student: the counts of notes and of completed tasks
    quizzes,             \* the rows of table quizzes of all students, by created_at
    dashboard,
    \* dashboard_page, Delete Student: the tables it deletes from
    students,            \* the ids in table students
    notes,               \* the student_id values that occur in table notes
    tasks,               \* the student_id values that occur in table tasks
    deleting,            \* the position of a run of the Delete Student handler
    \* Coordinator: the AssistantState of the request in progress and the node
    \* the workflow runs next
    workflow

pageVars == <<has_quiz, quiz_questions, quiz_answer_key, quiz_user_answers, db,
              report, model_called>>

taVars == <<ta_has_quiz, ta_questions, ta_answer_key, ta_user_answers,
            ta_num_questions, ta_report, ta_model_called>>

parseVars == <<p_n, p_out, p_inline, p_mcq>>

scoreVars == <<s_key, s_answers, s_result>>

dashVars == <<activity, quizzes, dashboard, students, notes, tasks, deleting>>

vars == <<pageVars, taVars, parseVars, scoreVars, dashVars, workflow>>

NoReport == [kind |-> "none"]

NotRun ==
    [ran |-> FALSE, raised |-> FALSE, questions |-> <<>>, answer_dict |-> <<>>,
     answer_key |-> <<>>]

NotGraded == [by |-> "none"]

\* a fresh session and an empty table
PageInit ==
    /\ has_quiz = FALSE
    /\ quiz_questions = <<>>
    /\ quiz_answer_key = <<>>
    /\ quiz_user_answers = <<>>
    /\ db = <<>>
    /\ report = NoReport
    /\ model_called = FALSE

TAInit ==
    /\ ta_has_quiz = FALSE
    /\ ta_questions = <<>>
    /\ ta_answer_key = <<>>
    /\ ta_user_answers = <<>>
    /\ ta_num_questions = 0
    /\ ta_report = NoReport
    /\ ta_model_called = FALSE

ParseIdle ==
    /\ p_n = 0
    /\ p_out = [blocks |-> <<>>, answers |-> <<>>, markers |-> 0]
    /\ p_inline = NotRun
    /\ p_mcq = NotRun

ScoreIdle ==
    /\ s_key = <<>>
    /\ s_answers = <<>>
    /\ s_result = NotGraded

\* no run of the Delete Student handler under way
NotDeleting ==
    [pc |-> "idle", student_id_to_delete |-> 0, aborted |-> FALSE, committed |-> {}]

DashIdle ==
    /\ activity = <<>>
    /\ quizzes = <<>>
    /\ dashboard = [shown |-> FALSE]
    /\ students = {} /\ notes = {} /\ tasks = {}
    /\ deleting = NotDeleting

(***************************************************************************)
(* The parser on every output the model may give.                          *)
(***************************************************************************)
ParseInit ==
    /\ p_n \in 1..MaxN
    /\ p_out \in Outputs(p_n)
    /\ p_inline = NotRun
    /\ p_mcq = NotRun
    /\ PageInit /\ TAInit /\ ScoreIdle /\ DashIdle
    /\ workflow = [next |-> "none"]

\* the inline parser of quiz_analyze_page
RunInlineParse ==
    /\ ~p_inline.ran
    /\ \E r \in {InlineParse(Render(p_out), p_n)} :
          p_inline' = [ran |-> TRUE, raised |-> FALSE, questions |-> r.questions,
                       answer_dict |-> r.answer_dict, answer_key |-> r.answer_key]
    /\ UNCHANGED <<p_n, p_out, p_mcq, pageVars, taVars, scoreVars, dashVars, workflow>>

\* parse_mcq_response of TestAgent.py
RunParseMcq ==
    /\ ~p_mcq.ran
    /\ \E r \in {parse_mcq_response(Render(p_out), p_n)} :
          p_mcq' = [ran |-> TRUE, raised |-> r.raised, questions |-> r.questions,
                    answer_dict |-> r.answer_dict, answer_key |-> r.answer_key]
    /\ UNCHANGED <<p_n, p_out, p_inline, pageVars, taVars, scoreVars, dashVars, workflow>>

ParseNext == RunInlineParse \/ RunParseMcq

SpecParse == ParseInit /\ [][ParseNext]_vars

\* outputs in which the model repeats itself: an answer line may come twice,
\* first with the letter b and then with the letter of the key in upper case
RepeatedOutputs(n) ==
    {[blocks |-> [i \in 1..n |-> "ok"], answers |-> a, markers |-> 1] :
        a \in [1..n -> {"ok", "upper", "twice", "absent"}]}

RepeatedInit ==
    /\ p_n \in 1..MaxN
    /\ p_out \in RepeatedOutputs(p_n)
    /\ p_inline = NotRun
    /\ p_mcq = NotRun
    /\ PageInit /\ TAInit /\ ScoreIdle /\ DashIdle
    /\ workflow = [next |-> "none"]

SpecRepeated == RepeatedInit /\ [][ParseNext]_vars

(***************************************************************************)
(* The graders on the keys and answers a session can hold.                 *)
(***************************************************************************)
RECURSIVE KeyOfLength(_)
KeyOfLength(n) == IF n = 0 THEN <<>> ELSE Append(KeyOfLength(n - 1), KeyLetter(n))

\* the keys the reconciler gives for n questions: complete, with one unknown
\* entry, or longer than the list of questions
KeysFor(n) ==
    {KeyOfLength(n), KeyOfLength(n + 1)}
    \cup {[KeyOfLength(n) EXCEPT ![k] = ""] : k \in 1..n}

ScoreInit ==
    /\ \E n \in 1..MaxScoreLen :
          /\ s_key \in KeysFor(n)
          /\ s_answers \in [1..n -> Letters \cup {""}]
    /\ s_result = NotGraded
    /\ PageInit /\ TAInit /\ ParseIdle /\ DashIdle
    /\ workflow = [next |-> "none"]

\* Submit Quiz with a score that is kept between runs instead of starting at 0
GradeSubmitKeepingScore ==
    /\ s_result' =
          IF unanswered(s_answers) # {}
          THEN [by |-> "submit", graded |-> FALSE]
          ELSE LET score == SubmitLoop(s_answers, s_key, 1,
                                       IF s_result.by = "submit" /\ s_result.graded
                                       THEN s_result.score ELSE 0)
                   percentage == Percentage(score, Len(s_answers))
               IN  [by |-> "submit", graded |-> TRUE, score |-> score,
                    percentage |-> percentage, shown |-> IntOf(percentage)]
    /\ UNCHANGED <<s_key, s_answers, pageVars, taVars, parseVars, dashVars, workflow>>

\* Submit Quiz of quiz_analyze_page, up to the messages it shows
GradeSubmit ==
    /\ s_result' =
          IF unanswered(s_answers) # {}
          THEN [by |-> "submit", graded |-> FALSE]
          ELSE LET score == SubmitScore(s_answers, s_key)
                   percentage == Percentage(score, Len(s_answers))
               IN  [by |-> "submit", graded |-> TRUE, score |-> score,
                    percentage |-> percentage, shown |-> IntOf(percentage)]
    /\ UNCHANGED <<s_key, s_answers, pageVars, taVars, parseVars, dashVars, workflow>>

\* Evaluate Answers of TestAgent.py, with the score analyze_performance recomputes
GradeEvaluate ==
    /\ s_result' =
          IF unanswered(s_answers) # {}
          THEN [by |-> "evaluate", graded |-> FALSE]
          ELSE LET score == EvaluateScore(Len(s_answers), s_answers, s_key)
                   shown == PyRound(Percentage(score, Len(s_answers)))
               IN  [by |-> "evaluate", graded |-> TRUE, score |-> score,
                    percentage |-> Percentage(shown, 100), shown |-> shown,
                    analysed |-> PerformanceScore(s_answers, s_key)]
    /\ UNCHANGED <<s_key, s_answers, pageVars, taVars, parseVars, dashVars, workflow>>

SpecScore == ScoreInit /\ [][GradeSubmit \/ GradeEvaluate]_vars

(***************************************************************************)
(* Inputs of a session: what the user enters and what the model returns.   *)
(***************************************************************************)
\* len(content) < 100 is rejected
MinContentLength == 100

\* st.number_input("Number of Questions", min_value=...)
PageMinQuestions == 3

TAMinQuestions == 1

\* a source text, by its length and the length of its strip()
Contents ==
    {[len |-> 0, stripped |-> 0], [len |-> 120, stripped |-> 0],
     [len |-> 99, stripped |-> 99], [len |-> 100, stripped |-> 100]}

Titles == {"", "Chapter 5 Review"}

\* the options the user clicks in a session of the page
Picks == {"a", "c"}

\* what the user types into an answer box of TestAgent.py
TypedInputs == {"", "a", "b", "c", "d", "B", "z"}

WellFormedOutput(n) ==
    [blocks |-> [i \in 1..n |-> "ok"], answers |-> [i \in 1..n |-> "ok"], markers |-> 1]

\* the outputs the model gives within a session: the well-formed one, one with
\* a question block missing, without options, with the options a) and b)
\* only or with the options labelled A) to D), one with the last answer line
\* missing, one without the marker, one without any question block
SessionOutputs(n) ==
    LET wf == WellFormedOutput(n)
        k  == Min(2, n)
    IN  {wf,
         [wf EXCEPT !.blocks[k] = "absent"],
         [wf EXCEPT !.blocks[k] = "noopts"],
         [wf EXCEPT !.blocks[k] = "twoopts"],
         [wf EXCEPT !.blocks[k] = "upperopts"],
         [wf EXCEPT !.answers[n] = "absent"],
         [wf EXCEPT !.markers = 0],
         [wf EXCEPT !.blocks = <<>>]}

\* the call of the generative model: it raises, or returns a text
ModelReplies(n) ==
    {[fails |-> TRUE, out |-> WellFormedOutput(n)]}
    \cup {[fails |-> FALSE, out |-> o] : o \in SessionOutputs(n)}

\* [""] * n
Blanks(n) == [i \in 1..n |-> ""]

\* the parsers' results on the outputs of a session, computed once
InlineParsed ==
    [n \in 1..MaxN |-> [o \in SessionOutputs(n) |-> InlineParse(Render(o), n)]]

McqParsed ==
    [n \in 1..MaxN |-> [o \in SessionOutputs(n) |-> parse_mcq_response(Render(o), n)]]

(***************************************************************************)
(* quiz_analyze_page, tab "Generate Quiz": one action per run of the page. *)
(***************************************************************************)
\* the page shows the quiz: 'quiz_questions' in st.session_state and it is not empty
QuizShown == has_quiz /\ Len(quiz_questions) > 0

\* the button "Generate Quiz", when the model is not reached
GenerateRejected(content, quiz_title, groq_api_key) ==
    IF ~(content.len > 0 /\ groq_api_key)
    THEN /\ report' = NoReport
         /\ model_called' = FALSE
         /\ UNCHANGED <<has_quiz, quiz_questions, quiz_answer_key, quiz_user_answers>>
    ELSE IF content.stripped < MinContentLength
    THEN /\ report' = [kind |-> "error", what |-> "content"]
         /\ model_called' = FALSE
         /\ UNCHANGED <<has_quiz, quiz_questions, quiz_answer_key, quiz_user_answers>>
    ELSE /\ quiz_title = ""
         /\ report' = [kind |-> "error", what |-> "title"]
         /\ model_called' = FALSE
         /\ UNCHANGED <<has_quiz, quiz_questions, quiz_answer_key, quiz_user_answers>>

\* whether the run of "Generate Quiz" reaches the call of the model
ReachesModel(content, quiz_title, groq_api_key) ==
    /\ content.len > 0 /\ groq_api_key
    /\ content.stripped >= MinContentLength
    /\ quiz_title # ""

\* Generate Quiz with one answer slot per requested question: [""] * num_questions
GenerateCalledRequestedSlots(num_questions, model) ==
    IF model.fails
    THEN /\ report' = [kind |-> "error", what |-> "generate"]
         /\ model_called' = TRUE
         /\ UNCHANGED <<has_quiz, quiz_questions, quiz_answer_key, quiz_user_answers>>
    ELSE IF Len(InlineParsed[num_questions][model.out].questions) < 1
    THEN /\ report' = [kind |-> "error", what |-> "parse"]
         /\ model_called' = TRUE
         /\ UNCHANGED <<has_quiz, quiz_questions, quiz_answer_key, quiz_user_answers>>
    ELSE /\ has_quiz' = TRUE
         /\ quiz_questions' =
               Take(InlineParsed[num_questions][model.out].questions, num_questions)
         /\ quiz_answer_key' =
               Take(InlineParsed[num_questions][model.out].answer_key, num_questions)
         /\ quiz_user_answers' = Blanks(num_questions)
         /\ report' = [kind |-> "generated"]
         /\ model_called' = TRUE

\* the button "Generate Quiz", from the call of the model on
GenerateCalled(num_questions, model) ==
    IF model.fails
    THEN /\ report' = [kind |-> "error", what |-> "generate"]
         /\ model_called' = TRUE
         /\ UNCHANGED <<has_quiz, quiz_questions, quiz_answer_key, quiz_user_answers>>
    ELSE LET r == InlineParsed[num_questions][model.out]
         IN  IF Len(r.questions) < 1 \/ Len(r.answer_key) < 1
             THEN /\ report' = [kind |-> "error", what |-> "parse"]
                  /\ model_called' = TRUE
                  /\ UNCHANGED <<has_quiz, quiz_questions, quiz_answer_key,
                                 quiz_user_answers>>
             ELSE /\ has_quiz' = TRUE
                  /\ quiz_questions' = Take(r.questions, num_questions)
                  /\ quiz_answer_key' = Take(r.answer_key, num_questions)
                  /\ quiz_user_answers' = Blanks(Len(Take(r.questions, num_questions)))
                  /\ report' = [kind |-> "generated"]
                  /\ model_called' = TRUE

\* one run of the page with "Generate Quiz" clicked
GenerateQuiz(content, quiz_title, groq_api_key, num_questions) ==
    IF ReachesModel(content, quiz_title, groq_api_key)
    THEN \E model \in ModelReplies(num_questions) : GenerateCalled(num_questions, model)
    ELSE GenerateRejected(content, quiz_title, groq_api_key)

Generate ==
    /\ \E content \in Contents, quiz_title \in Titles, groq_api_key \in BOOLEAN,
          num_questions \in PageMinQuestions..MaxN :
             GenerateQuiz(content, quiz_title, groq_api_key, num_questions)
    /\ UNCHANGED <<db, taVars, parseVars, scoreVars, dashVars, workflow>>

\* the radio button of question i (1-based); "" is "Select an answer..."
SelectAnswer ==
    /\ QuizShown
    /\ \E i \in 1..Len(quiz_questions), selected_option \in Picks \cup {""} :
          /\ Len(options(quiz_questions[i])) > 0
          /\ quiz_user_answers' =
                IF selected_option # ""
                THEN [quiz_user_answers EXCEPT ![i] = selected_option]
                ELSE quiz_user_answers
    /\ report' = NoReport
    /\ model_called' = FALSE
    /\ UNCHANGED <<has_quiz, quiz_questions, quiz_answer_key, db,
                   taVars, parseVars, scoreVars, dashVars, workflow>>

\* the row INSERT INTO quizzes writes
QuizRow(score, percentage) ==
    [num_questions |-> Len(quiz_questions), questions |-> quiz_questions,
     answers |-> quiz_answer_key, user_answers |-> quiz_user_answers,
     score |-> score, score_percentage |-> Numeric52(percentage)]

\* Submit Quiz saving in two steps, the quiz first and its result afterwards, so
\* that a failure leaves the row of the first step behind
SubmitQuizInTwoSteps(db_ok) ==
    /\ QuizShown
    /\ IF unanswered(quiz_user_answers) # {}
       THEN /\ report' = [kind |-> "warning", what |-> "unanswered"]
            /\ db' = db
       ELSE LET score == SubmitScore(quiz_user_answers, quiz_answer_key)
                total_questions == Len(quiz_questions)
                percentage == Percentage(score, total_questions)
            IN  /\ report' = [kind |-> "submitted", score |-> score,
                              total |-> total_questions, shown |-> IntOf(percentage),
                              saved |-> db_ok]
                /\ db' = IF db_ok THEN Append(db, QuizRow(score, percentage))
                         ELSE IF Len(db) < MaxRows
                         THEN Append(db, QuizRow(0, Percentage(0, total_questions)))
                         ELSE db
    /\ model_called' = FALSE
    /\ UNCHANGED <<has_quiz, quiz_questions, quiz_answer_key, quiz_user_answers,
                   taVars, parseVars, scoreVars, dashVars, workflow>>

\* Submit Quiz grading and saving whatever has been answered so far
SubmitQuizUnchecked(db_ok) ==
    /\ QuizShown
    /\ LET score == SubmitScore(quiz_user_answers, quiz_answer_key)
           total_questions == Len(quiz_questions)
           percentage == Percentage(score, total_questions)
       IN  /\ report' = [kind |-> "submitted", score |-> score,
                         total |-> total_questions, shown |-> IntOf(percentage),
                         saved |-> db_ok]
           /\ db' = IF db_ok THEN Append(db, QuizRow(score, percentage)) ELSE db
    /\ model_called' = FALSE
    /\ UNCHANGED <<has_quiz, quiz_questions, quiz_answer_key, quiz_user_answers,
                   taVars, parseVars, scoreVars, dashVars, workflow>>

\* the button "Submit Quiz"; the INSERT succeeds or raises
SubmitQuiz(db_ok) ==
    /\ QuizShown
    /\ IF unanswered(quiz_user_answers) # {}
       THEN /\ report' = [kind |-> "warning", what |-> "unanswered"]
            /\ db' = db
       ELSE LET score == SubmitScore(quiz_user_answers, quiz_answer_key)
                total_questions == Len(quiz_questions)
                percentage == Percentage(score, total_questions)
            IN  /\ report' = [kind |-> "submitted", score |-> score,
                              total |-> total_questions, shown |-> IntOf(percentage),
                              saved |-> db_ok]
                /\ db' = IF db_ok THEN Append(db, QuizRow(score, percentage)) ELSE db
    /\ model_called' = FALSE
    /\ UNCHANGED <<has_quiz, quiz_questions, quiz_answer_key, quiz_user_answers,
                   taVars, parseVars, scoreVars, dashVars, workflow>>

\* the table is explored up to MaxRows saved attempts, and one more when Submit
\* Quiz is clicked again right after an attempt was saved
Submit ==
    \E db_ok \in BOOLEAN :
       /\ db_ok => \/ Len(db) < MaxRows
                   \/ Len(db) = MaxRows /\ report.kind = "submitted" /\ report.saved
       /\ SubmitQuiz(db_ok)

\* Clear and Start Over that also removes the saved attempts
ClearAndStartOverWithHistory ==
    /\ QuizShown
    /\ has_quiz' = FALSE
    /\ quiz_questions' = <<>>
    /\ quiz_answer_key' = <<>>
    /\ quiz_user_answers' = <<>>
    /\ report' = NoReport
    /\ model_called' = FALSE
    /\ db' = <<>>
    /\ UNCHANGED <<taVars, parseVars, scoreVars, dashVars, workflow>>

\* the button "Clear and Start Over"
ClearAndStartOver ==
    /\ QuizShown
    /\ has_quiz' = FALSE
    /\ quiz_questions' = <<>>
    /\ quiz_answer_key' = <<>>
    /\ quiz_user_answers' = <<>>
    /\ report' = NoReport
    /\ model_called' = FALSE
    /\ UNCHANGED <<db, taVars, parseVars, scoreVars, dashVars, workflow>>

Init ==
    /\ PageInit /\ TAInit /\ ParseIdle /\ ScoreIdle /\ DashIdle
    /\ workflow = [next |-> "none"]

(***************************************************************************)
(* TestAgent.py: one action per run of the script.  The answer boxes of a  *)
(* new quiz start from st.session_state.user_answers.                      *)
(***************************************************************************)
\* the script shows the questions: "questions" in st.session_state and it is not empty
TAQuestionsShown == ta_has_quiz /\ Len(ta_questions) > 0

\* get_content_from_input and the length check of generate_mcqs raise
TAGenerateRejected(content) ==
    /\ content.stripped < MinContentLength
    /\ ta_report' = [kind |-> "error",
                     what |-> IF content.stripped = 0 THEN "input" ELSE "content"]
    /\ ta_model_called' = FALSE
    /\ UNCHANGED <<ta_has_quiz, ta_questions, ta_answer_key, ta_user_answers,
                   ta_num_questions>>

\* what the handler stores of the parser's result r
TAStore(r, num_questions) ==
    /\ ta_has_quiz' = TRUE
    /\ ta_questions' = r.questions
    /\ ta_answer_key' = r.answer_key
    /\ ta_user_answers' = Blanks(Len(r.questions))
    /\ ta_num_questions' = Len(r.questions)
    /\ ta_report' =
          IF Len(r.questions) = num_questions /\ Len(r.answer_key) = num_questions
          THEN [kind |-> "generated"]
          ELSE [kind |-> "warning", what |-> "fewer"]

\* the button "Generate MCQs", from the call of the model on
TAGenerateCalled(num_questions, model) ==
    /\ ta_model_called' = TRUE
    /\ IF model.fails \/ McqParsed[num_questions][model.out].raised
       THEN /\ ta_report' = [kind |-> "error",
                             what |-> IF model.fails THEN "generate" ELSE "format"]
            /\ UNCHANGED <<ta_has_quiz, ta_questions, ta_answer_key, ta_user_answers,
                           ta_num_questions>>
       ELSE TAStore(McqParsed[num_questions][model.out], num_questions)

\* one run of the script with "Generate MCQs" clicked
TAGenerateMCQs(content, num_questions) ==
    IF content.stripped < MinContentLength
    THEN TAGenerateRejected(content)
    ELSE \E model \in ModelReplies(num_questions) : TAGenerateCalled(num_questions, model)

TAGenerate ==
    /\ \E content \in Contents, num_questions \in TAMinQuestions..MaxN :
          TAGenerateMCQs(content, num_questions)
    /\ UNCHANGED <<pageVars, parseVars, scoreVars, dashVars, workflow>>

\* the answer box of question i (1-based): only a, b, c, d are kept
TAAnswer ==
    /\ TAQuestionsShown
    /\ \E i \in 1..Len(ta_questions), typed \in TypedInputs :
          IF ToLower(typed) # "" /\ ToLower(typed) \notin Letters
          THEN /\ ta_user_answers' = [ta_user_answers EXCEPT ![i] = ""]
               /\ ta_report' = [kind |-> "warning", what |-> "letter"]
          ELSE /\ ta_user_answers' = [ta_user_answers EXCEPT ![i] = ToLower(typed)]
               /\ ta_report' = NoReport
    /\ ta_model_called' = FALSE
    /\ UNCHANGED <<ta_has_quiz, ta_questions, ta_answer_key, ta_num_questions,
                   pageVars, parseVars, scoreVars, dashVars, workflow>>

\* what "Evaluate Answers" shows once every question is answered; analysis_ok
\* is whether the model call of analyze_performance succeeds
TAResults(score, total, analysis_ok) ==
    IF total = 0
    THEN [kind |-> "exception", what |-> "ZeroDivisionError"]
    ELSE [kind |-> "evaluated", score |-> score, total |-> total,
          shown |-> PyRound(Percentage(score, total)), analysis |-> analysis_ok]

\* the button "Evaluate Answers"
TAEvaluateAnswers(analysis_ok) ==
    /\ ta_has_quiz
    /\ IF unanswered(ta_user_answers) # {}
       THEN /\ ta_report' = [kind |-> "warning", what |-> "unanswered"]
            /\ ta_model_called' = FALSE
       ELSE /\ ta_report' =
                  TAResults(EvaluateScore(Len(ta_questions), ta_user_answers,
                                          ta_answer_key),
                            Len(ta_questions), analysis_ok)
            /\ ta_model_called' = (Len(ta_questions) > 0)
    /\ UNCHANGED <<ta_has_quiz, ta_questions, ta_answer_key, ta_user_answers,
                   ta_num_questions, pageVars, parseVars, scoreVars, dashVars, workflow>>

TAEvaluate == \E analysis_ok \in BOOLEAN : TAEvaluateAnswers(analysis_ok)

SpecTA == Init /\ [][TAGenerate \/ TAAnswer \/ TAEvaluate]_vars

Next == Generate \/ SelectAnswer \/ Submit \/ ClearAndStartOver

Spec == Init /\ [][Next]_vars

(***************************************************************************)
(* dashboard_page: the tabs "Student Leaderboard" and "Performance         *)
(* Analytics".  A run of the page reads the tables and shows everything;   *)
(* a percentage is the NUMERIC(5,2) value num / 100.                       *)
(***************************************************************************)
\* the rows of table students
Students == <<[id |-> 1, name |-> "Zoe"], [id |-> 2, name |-> "Al"]>>

StudentIds == {Students[k].id : k \in 1..Len(Students)}

\* the names in the order ORDER BY name gives
NameRank(name) == CHOOSE k \in 1..2 : <<"Al", "Zoe">>[k] = name

\* COUNT(DISTINCT n.id) and COUNT(DISTINCT CASE WHEN t.status = 'completed' ...)
Activities ==
    {[notes_count |-> 10, completed_tasks |-> 4],
     [notes_count |-> 3, completed_tasks |-> 0],
     [notes_count |-> 0, completed_tasks |-> 5]}

Subjects == {"Biology", "Physics"}

\* the percentages of the saved attempts: 50.00, 60.00, 80.00
SavedPercentages == {[num |-> h, den |-> 100] : h \in {5000, 6000, 8000}}

QuizRecords ==
    [student_id : StudentIds, subject : Subjects, score_percentage : SavedPercentages]

Histories == UNION {[1..n -> QuizRecords] : n \in 0..MaxAttempts}

\* the sum of the percentages (in hundredths) of the rows at the indices in S
RECURSIVE SumAt(_, _)
SumAt(rows, S) ==
    IF S = {} THEN 0
    ELSE SumAt(rows, S \ {First(S)}) + rows[First(S)].score_percentage.num

\* AVG(score_percentage) over the rows at the indices in S, S not empty
Avg(rows, S) == [num |-> SumAt(rows, S), den |-> 100 * Cardinality(S)]

\* the rows of one student: GROUP BY student_id
RowsOfStudent(id) == {i \in 1..Len(quizzes) : quizzes[i].student_id = id}

\* the rows of one subject: GROUP BY subject
RowsOfSubject(subject) == {i \in 1..Len(quizzes) : quizzes[i].subject = subject}

\* productivity = notes_count * 5 + completed_tasks * 3
Productivity(a) == a.notes_count * 5 + a.completed_tasks * 3

\* round(productivity + avg_quiz_score * 0.2) in place of int(...)
WithQuizzesRounded(productivity, avg_quiz_score) ==
    PyRound([num |-> productivity * 5 * avg_quiz_score.den + avg_quiz_score.num,
             den |-> 5 * avg_quiz_score.den])

\* int(productivity + avg_quiz_score * 0.2)
WithQuizzes(productivity, avg_quiz_score) ==
    IntOf([num |-> productivity * 5 * avg_quiz_score.den + avg_quiz_score.num,
           den |-> 5 * avg_quiz_score.den])

\* overall_score as an integer: without quizzes it is the productivity
OverallScore(productivity, S) ==
    IF Cardinality(S) > 0
    THEN WithQuizzes(productivity, Avg(quizzes, S))
    ELSE productivity

\* one entry of leaderboard_data
LeaderboardRow(student) ==
    [ID |-> student.id, Name |-> student.name,
     Notes |-> activity[student.id].notes_count,
     Completed |-> activity[student.id].completed_tasks,
     Quizzes |-> Cardinality(RowsOfStudent(student.id)),
     Productivity |-> Productivity(activity[student.id]),
     Overall |-> OverallScore(Productivity(activity[student.id]),
                              RowsOfStudent(student.id))]

\* sort_values(by="Overall Score", ascending=False): the rows by descending
\* score; neither the query nor the sort fixes the order of equal scores
SortedByOverall(rows) ==
    {[k \in 1..Len(rows) |-> rows[order[k]]] :
        order \in {o \in [1..Len(rows) -> 1..Len(rows)] :
                     /\ \A i, j \in 1..Len(rows) : i # j => o[i] # o[j]
                     /\ \A i, j \in 1..Len(rows) :
                           i < j => rows[o[i]].Overall >= rows[o[j]].Overall}}

Leaderboards ==
    SortedByOverall([k \in 1..Len(Students) |-> LeaderboardRow(Students[k])])

\* column Score of quiz_performance for the selection (0 is "All Students"),
\* in hundredths, ORDER BY created_at
RECURSIVE ScoresFrom(_, _)
ScoresFrom(quiz_student, i) ==
    IF i > Len(quizzes) THEN <<>>
    ELSE (IF quiz_student = 0 \/ quizzes[i].student_id = quiz_student
          THEN <<quizzes[i].score_percentage.num>> ELSE <<>>)
         \o ScoresFrom(quiz_student, i + 1)

quiz_performance(quiz_student) == ScoresFrom(quiz_student, 1)

RECURSIVE SumXY(_, _)
SumXY(ys, i) == IF i > Len(ys) THEN 0 ELSE (i - 1) * ys[i] + SumXY(ys, i + 1)

RECURSIVE SumY(_, _)
SumY(ys, i) == IF i > Len(ys) THEN 0 ELSE ys[i] + SumY(ys, i + 1)

\* the least-squares slope of ys over x = 0 .. n-1, times its positive denominator
SlopeNumerator(ys) ==
    Len(ys) * SumXY(ys, 1) - ((Len(ys) * (Len(ys) - 1)) \div 2) * SumY(ys, 1)

Sign(x) == IF x > 0 THEN 1 ELSE IF x < 0 THEN -1 ELSE 0

\* the sign of z[0] of np.polyfit(range(n), ys, 1): the floating-point fit of
\* a slope that is exactly 0 may come out as a tiny number of either sign
PolyfitSigns(ys) ==
    IF SlopeNumerator(ys) = 0 THEN {-1, 0, 1} ELSE {Sign(SlopeNumerator(ys))}


\* what the page says about the trend
Trend(ys, z0) ==
    IF Len(ys) = 0 THEN [said |-> "No quiz performance data available."]
    ELSE IF Len(ys) < 2 THEN [said |-> ""]
    ELSE [said |-> "trend",
          direction |-> IF z0 > 0 THEN "improving" ELSE "declining",
          slope |-> z0]

\* the table "Subject Proficiency": AVG(score_percentage) ... GROUP BY subject
SubjectProficiency ==
    [subject \in {x \in Subjects : RowsOfSubject(x) # {}} |->
        [avg_score |-> Avg(quizzes, RowsOfSubject(subject)),
         quiz_count |-> Cardinality(RowsOfSubject(subject))]]

DashInit ==
    /\ activity \in [StudentIds -> Activities]
    /\ quizzes \in Histories
    /\ dashboard = [shown |-> FALSE]
    /\ students = {} /\ notes = {} /\ tasks = {}
    /\ deleting = NotDeleting
    /\ PageInit /\ TAInit /\ ParseIdle /\ ScoreIdle
    /\ workflow = [next |-> "none"]

\* one run of dashboard_page with quiz_student selected for the quiz analysis
ShowDashboard ==
    /\ \E quiz_student \in {0} \cup StudentIds, leaderboard \in Leaderboards :
          \E ys \in {quiz_performance(quiz_student)} :
             \E z0 \in PolyfitSigns(ys) :
                dashboard' = [shown |-> TRUE,
                              quiz_student |-> quiz_student,
                              leaderboard |-> leaderboard,
                              trend |-> Trend(ys, z0),
                              proficiency |-> SubjectProficiency]
    /\ UNCHANGED <<activity, quizzes, students, notes, tasks, deleting,
                   pageVars, taVars, parseVars, scoreVars, workflow>>

SpecDash == DashInit /\ [][ShowDashboard]_vars

(***************************************************************************)
(* dashboard_page, "Delete Student Profile".  The handler runs one         *)
(* statement and one commit after the other on a connection of its own, so *)
(* other sessions see the tables between two statements: one action per    *)
(* statement.  The connection comes from init_connection without           *)
(* autocommit: after a statement that failed the transaction is aborted    *)
(* and every later statement on the connection fails.  The tables quizzes, *)
(* tasks and notes reference students(id).                                 *)
(***************************************************************************)
DeleteInit ==
    /\ students = StudentIds
    /\ notes \in SUBSET StudentIds
    /\ tasks \in SUBSET StudentIds
    /\ quizzes \in {h \in Histories : Len(h) <= 1}
    /\ deleting = NotDeleting
    /\ activity = <<>> /\ dashboard = [shown |-> FALSE]
    /\ PageInit /\ TAInit /\ ParseIdle /\ ScoreIdle
    /\ workflow = [next |-> "none"]

\* the button "Delete Student" with the confirmation ticked: the counts are
\* shown and the connection for the deletion is opened, or that raises
ClickDelete ==
    /\ deleting.pc = "idle"
    /\ \E student_id_to_delete \in students, connected \in BOOLEAN :
          deleting' = [pc |-> IF connected THEN "quizzes" ELSE "idle",
                       student_id_to_delete |-> student_id_to_delete,
                       aborted |-> FALSE, committed |-> {}]
    /\ UNCHANGED <<students, notes, tasks, quizzes, activity, dashboard,
                   pageVars, taVars, parseVars, scoreVars, workflow>>

\* a connection in autocommit mode: a failure leaves later statements alone
AfterFailureAutocommit(d) == d

\* the connection after a statement or a commit on it raised
AfterFailure(d) == [d EXCEPT !.aborted = TRUE]

\* the next statement of the handler with its commit; ok: neither raises
DeleteStatement ==
    /\ deleting.pc # "idle"
    /\ \E ok \in BOOLEAN :
          LET id == deleting.student_id_to_delete
              done == ok /\ ~deleting.aborted
              committed == [deleting EXCEPT !.committed = @ \cup {deleting.pc}]
          IN  CASE deleting.pc = "quizzes" ->
                     /\ quizzes' = IF done
                                   THEN SelectSeq(quizzes, LAMBDA r : r.student_id # id)
                                   ELSE quizzes
                     /\ deleting' = IF done THEN [committed EXCEPT !.pc = "tasks"]
                                    ELSE [AfterFailure(deleting) EXCEPT !.pc = "tasks"]
                     /\ UNCHANGED <<students, notes, tasks>>
                [] deleting.pc = "tasks" ->
                     /\ tasks' = IF done THEN tasks \ {id} ELSE tasks
                     /\ deleting' = IF done THEN [committed EXCEPT !.pc = "notes"]
                                    ELSE [deleting EXCEPT !.pc = "idle"]
                     /\ UNCHANGED <<students, notes, quizzes>>
                [] deleting.pc = "notes" ->
                     /\ notes' = IF done THEN notes \ {id} ELSE notes
                     /\ deleting' = IF done THEN [committed EXCEPT !.pc = "knowledge_base"]
                                    ELSE [deleting EXCEPT !.pc = "idle"]
                     /\ UNCHANGED <<students, tasks, quizzes>>
                [] deleting.pc = "knowledge_base" ->
                     /\ deleting' = IF done THEN [committed EXCEPT !.pc = "students"]
                                    ELSE [AfterFailure(deleting) EXCEPT !.pc = "students"]
                     /\ UNCHANGED <<students, notes, tasks, quizzes>>
                [] OTHER ->
                     \* DELETE FROM students: refused while a row references the student
                     /\ students' =
                           IF /\ done /\ id \notin notes \cup tasks
                              /\ \A k \in 1..Len(quizzes) : quizzes[k].student_id # id
                           THEN students \ {id} ELSE students
                     /\ deleting' = [deleting EXCEPT !.pc = "idle"]
                     /\ UNCHANGED <<notes, tasks, quizzes>>
    /\ UNCHANGED <<activity, dashboard, pageVars, taVars, parseVars, scoreVars, workflow>>

\* another session saves a quiz attempt, a task or a note of a student; the
\* foreign key refuses the row of a student that is not in table students
InsertRow ==
    /\ \E id \in students :
          \/ /\ Len(quizzes) < MaxAttempts
             /\ quizzes' = Append(quizzes, [student_id |-> id, subject |-> "Biology",
                                            score_percentage |-> [num |-> 5000, den |-> 100]])
             /\ UNCHANGED <<notes, tasks>>
          \/ /\ tasks' = tasks \cup {id}
             /\ UNCHANGED <<notes, quizzes>>
          \/ /\ notes' = notes \cup {id}
             /\ UNCHANGED <<tasks, quizzes>>
    /\ UNCHANGED <<students, deleting, activity, dashboard,
                   pageVars, taVars, parseVars, scoreVars, workflow>>

SpecDelete == DeleteInit /\ [][ClickDelete \/ DeleteStatement \/ InsertRow]_vars

(***************************************************************************)
(* Coordinator (src/agents/coordinator.py): the workflow of one request,   *)
(* as _build_agent_graph declares it: the entry node coordinator, the node *)
(* route_task chooses, and the edge from every agent back to coordinator.  *)
(***************************************************************************)
\* a request, by the keywords that occur in user_request.lower()
Requests == SUBSET {"schedule", "time", "note", "lecture", "help", "advice"}

\* route_task(state)
route_task(state) ==
    IF state.task_type \in {"schedule", "calendar"} THEN "planner"
    ELSE IF state.task_type \in {"notes", "content"} THEN "notewriter"
    ELSE IF state.task_type \in {"advice", "recommendation"} THEN "advisor"
    ELSE IF \A a \in DOMAIN state.agent_states : state.agent_states[a] = "completed"
    THEN "end"
    ELSE "advisor"

FlowInit ==
    /\ workflow = [next |-> "none"]
    /\ PageInit /\ TAInit /\ ParseIdle /\ ScoreIdle /\ DashIdle

\* process_request(user_request, student_profile) up to agent_graph.invoke
process_request ==
    /\ workflow.next \in {"none", "end"}
    /\ \E user_request \in Requests, student_profile \in BOOLEAN :
          workflow' =
             [next |-> "coordinator",
              messages |-> user_request,
              student_profile |-> student_profile,
              task_type |->
                 IF user_request \cap {"schedule", "plan", "calendar", "time"} # {}
                 THEN "schedule"
                 ELSE IF user_request \cap {"note", "summarize", "content", "lecture"} # {}
                 THEN "notes"
                 ELSE IF user_request \cap {"advice", "help", "recommend", "suggestion"} # {}
                 THEN "advice"
                 ELSE "unknown",
              current_agent |-> "none",
              agent_states |-> [a \in {"coordinator", "planner", "notewriter", "advisor"}
                                  |-> "idle"]]
    /\ UNCHANGED <<pageVars, taVars, parseVars, scoreVars, dashVars>>

\* the node coordinator, followed by the conditional edge route_task
process_coordinator ==
    /\ workflow.next = "coordinator"
    /\ \E state \in {[workflow EXCEPT !.current_agent = "coordinator",
                                       !.agent_states["coordinator"] = "completed"]} :
          workflow' = [state EXCEPT !.next = route_task(state)]
    /\ UNCHANGED <<pageVars, taVars, parseVars, scoreVars, dashVars>>

\* the nodes planner, notewriter and advisor, followed by the edge to coordinator
process_agent ==
    /\ workflow.next \in {"planner", "notewriter", "advisor"}
    /\ workflow' = [workflow EXCEPT !.current_agent = workflow.next,
                                    !.agent_states[workflow.next] = "completed",
                                    !.next = "coordinator"]
    /\ UNCHANGED <<pageVars, taVars, parseVars, scoreVars, dashVars>>

\* the workflow goes on from node to node as long as a node is due
SpecFlow ==
    /\ FlowInit
    /\ [][process_request \/ process_coordinator \/ process_agent]_vars
    /\ WF_vars(process_coordinator \/ process_agent)

(***************************************************************************)
(* Properties of the parser (SpecParse).                                   *)
(***************************************************************************)
\* the parser runs that returned a result
ParserRuns == {p \in {p_inline, p_mcq} : p.ran /\ ~p.raised}

\* the output follows the layout except that the answer line of question k is missing
OnlyAnswerMissing(k) ==
    /\ Len(p_out.blocks) = p_n /\ Len(p_out.answers) = p_n /\ p_out.markers = 1
    /\ \A i \in 1..p_n : p_out.blocks[i] = "ok"
    /\ \A i \in 1..p_n : (p_out.answers[i] = "absent") <=> (i = k)

\* C1: the reconciled answer key has exactly N entries; entry i is the letter
\* the parsed mapping gives for ordinal i and the empty string when the mapping
\* has no ordinal i (ordinals outside 1..N are ignored); when only the answer
\* line of question k is missing, the key is empty at k and holds the model's
\* letters everywhere else.
C1_ReconciledKey ==
    \A p \in ParserRuns :
       /\ Len(p.answer_key) = p_n
       /\ \A i \in 1..p_n :
             p.answer_key[i] = IF i \in DOMAIN p.answer_dict THEN p.answer_dict[i] ELSE ""
       /\ \A k \in 1..p_n :
             OnlyAnswerMissing(k) =>
                \A i \in 1..p_n :
                   p.answer_key[i] = IF i = k THEN "" ELSE KeyLetter(i)

\* both parsers ran on an output for 3 questions whose third answer line is missing
C1_Witness ==
    /\ p_n = 3 /\ OnlyAnswerMissing(3)
    /\ p_inline.ran /\ p_inline.answer_key = <<"a", "a", "">>
    /\ p_mcq.ran /\ ~p_mcq.raised /\ p_mcq.answer_key = <<"a", "a", "">>

CorrectPositions ==
    {i \in 1..Len(s_answers) :
        i <= Len(s_key) /\ s_answers[i] = s_key[i] /\ s_key[i] # ""}

Graded(r) == r.by # "none" /\ r.graded

\* C6: the score of a graded attempt is the number of positions where the
\* user's answer equals the key's entry and that entry is not the unknown
\* sentinel, in Submit Quiz, in Evaluate Answers and in analyze_performance.
C6_ScoreCountsKnownMatches ==
    Graded(s_result) =>
       /\ s_result.score = Cardinality(CorrectPositions)
       /\ s_result.by = "evaluate" => s_result.analysed = Cardinality(CorrectPositions)

\* answers a, b, c, d, a against the key a, a, c, d, b score 3
C6_Witness ==
    /\ s_key = <<"a", "a", "c", "d", "b">>
    /\ s_answers = <<"a", "b", "c", "d", "a">>
    /\ Graded(s_result) /\ s_result.by = "submit" /\ s_result.score = 3

AllCorrect == \A i \in 1..Len(s_answers) : s_answers[i] = s_key[i]

AllWrong == \A i \in 1..Len(s_answers) : s_key[i] # "" /\ s_answers[i] # s_key[i]

\* the percentage of result r is the whole number k
PercentIs(r, k) == IsWhole(r.percentage, k) /\ r.shown = k

\* C9: grading changes neither the key nor the answers nor anything else; the
\* same grader run again on the same pair gives the same score and percentage;
\* the percentage is 100 when every answer equals its key entry and 0 when
\* every answer differs from its (known) key entry.
C9_GradingPure ==
    [][Graded(s_result') =>
          /\ UNCHANGED <<s_key, s_answers, pageVars, taVars, parseVars, dashVars, workflow>>
          /\ (s_result.by = s_result'.by => s_result' = s_result)
          /\ (AllCorrect => PercentIs(s_result', 100))
          /\ (AllWrong => PercentIs(s_result', 0))]_vars

\* an attempt with every answer right, graded at 100 by Submit Quiz
C9_Witness ==
    /\ Len(s_answers) = 3 /\ AllCorrect
    /\ Graded(s_result) /\ s_result.by = "submit" /\ PercentIs(s_result, 100)

(***************************************************************************)
(* Properties of the sessions (Spec, SpecTA).                              *)
(***************************************************************************)
quizVars == <<has_quiz, quiz_questions, quiz_answer_key, quiz_user_answers>>

\* an output in the prompt's layout without the line "Answer Key:"
NoMarkerOutput(n) == [WellFormedOutput(n) EXCEPT !.markers = 0]

\* C2: a run of Generate Quiz whose model output lacks the marker "Answer Key:"
\* shows an error and leaves the session without new questions, answer key or
\* user answers.
C2_NoMarkerNoQuiz ==
    [][\A n \in PageMinQuestions..MaxN :
          GenerateCalled(n, [fails |-> FALSE, out |-> NoMarkerOutput(n)]) =>
             report'.kind = "error" /\ UNCHANGED quizVars]_vars

\* C3: the stored quiz has as many questions as answer-key entries.
C3_SameLength == has_quiz => Len(quiz_questions) = Len(quiz_answer_key)

\* the ordinal in the "Q<n>. " a stored question starts with
Ordinal(question) == ParseInt(SubSeq(question, 2, DigitsEnd(question, 2)))

\* C5: the stored question at position i (1-based here) carries ordinal i, so
\* that it is graded against the answer-key entry of its own ordinal.
C5_OrdinalAtPosition ==
    has_quiz => \A i \in 1..Len(quiz_questions) : Ordinal(quiz_questions[i]) = i

\* C7: the percentage a submission shows, and the one its row holds, is
\* round(score / total_questions * 100).
C7_RoundedPercentage ==
    /\ report.kind = "submitted" =>
          report.shown = PyRound(Percentage(report.score, report.total))
    /\ \A r \in 1..Len(db) :
          IsWhole(db[r].score_percentage,
                  PyRound(Percentage(db[r].score, db[r].num_questions)))

\* C8: grading a quiz without questions ends in an empty-quiz error, never in a
\* division by zero.
C8_EmptyQuizError ==
    ta_report.kind = "exception" => ta_report.what = "EmptyQuizError"

\* C10: a run of Generate Quiz on a content shorter than 100 characters shows
\* the insufficient-content error, calls no model and stores no quiz.
C10_ShortContentRejected ==
    [][\A content \in Contents, quiz_title \in Titles, groq_api_key \in BOOLEAN,
          num_questions \in PageMinQuestions..MaxN :
          (content.len < MinContentLength
             /\ GenerateQuiz(content, quiz_title, groq_api_key, num_questions)) =>
                /\ report' = [kind |-> "error", what |-> "content"]
                /\ ~model_called'
                /\ UNCHANGED quizVars]_vars

\* the option labels extracted from a stored question
Labels(question) == {options(question)[k] : k \in 1..Len(options(question))}

\* C11: a question of which fewer than four options are extracted cannot be
\* answered: every stored question that holds an answer has the four labels
\* a, b, c, d.
C11_AnswerableHasFourOptions ==
    has_quiz =>
       \A i \in 1..Len(quiz_questions) :
          quiz_user_answers[i] # "" => Letters \subseteq Labels(quiz_questions[i])

\* the questions the page offers answers for
Answerable == {i \in 1..Len(quiz_questions) : Len(options(quiz_questions[i])) > 0}

\* C12: once every question that can be answered is answered, Submit Quiz
\* grades the attempt: it shows the unanswered warning only while such a
\* question is still open.
C12_SubmitAfterValidAnswered ==
    (has_quiz /\ report = [kind |-> "warning", what |-> "unanswered"]) =>
       \E i \in Answerable : quiz_user_answers[i] = ""

\* C13: the session holds one answer slot per stored question, and so does
\* every saved attempt, whatever was generated, answered or submitted.
C13_OneSlotPerQuestion ==
    /\ Len(quiz_user_answers) = Len(quiz_questions)
    /\ \A r \in 1..Len(db) : Len(db[r].user_answers) = Len(db[r].questions)

\* an attempt on 3 questions is saved, and the quiz generated afterwards has
\* fewer questions than were requested
C13_Witness ==
    /\ Len(db) >= 1 /\ Len(db[1].user_answers) = 3
    /\ has_quiz /\ Len(quiz_questions) = 2 /\ Len(quiz_answer_key) = 3
    /\ quiz_user_answers[1] # ""

\* C14: a saved attempt never changes: every row of the table stays as it was
\* inserted, whatever the page does afterwards.
C14_RowsImmutable ==
    [][\A r \in 1..Len(db) : r <= Len(db') /\ db'[r] = db[r]]_vars

\* an attempt is saved, the quiz was cleared and another quiz is being answered
C14_Witness ==
    /\ Len(db) >= 1
    /\ has_quiz /\ quiz_questions # db[1].questions
    /\ \E i \in 1..Len(quiz_user_answers) : quiz_user_answers[i] # ""

\* the row of the attempt the page has just graded
GradedRow ==
    [num_questions |-> Len(quiz_questions), questions |-> quiz_questions,
     answers |-> quiz_answer_key, user_answers |-> quiz_user_answers,
     score |-> report'.score,
     score_percentage |-> Numeric52(Percentage(report'.score, report'.total))]

\* C15: a run of the page either leaves the table as it is or adds the full
\* record of the attempt it has just graded; when saving fails nothing is added.
C15_SaveAtomic ==
    [][\/ db' = db
       \/ /\ report'.kind = "submitted" /\ report'.saved
          /\ db' = Append(db, GradedRow)]_vars

\* a submission whose saving failed, with nothing stored
C15_Witness ==
    /\ report.kind = "submitted" /\ ~report.saved /\ report.score = 2
    /\ db = <<>>

(***************************************************************************)
(* Properties of the dashboard (SpecDash).                                 *)
(***************************************************************************)
\* the percentages the trend of the last run was computed from
TrendScores == quiz_performance(dashboard.quiz_student)

\* C16: for a history of at least two attempts the direction shown is
\* improving for a positive least-squares slope, declining for a negative one
\* and flat for a slope of exactly 0.
C16_TrendDirection ==
    (dashboard.shown /\ Len(TrendScores) >= 2) =>
       /\ dashboard.trend.said = "trend"
       /\ dashboard.trend.direction =
             CASE SlopeNumerator(TrendScores) > 0 -> "improving"
               [] SlopeNumerator(TrendScores) < 0 -> "declining"
               [] OTHER -> "flat"

\* C17: with fewer than two attempts the page says that the data is
\* insufficient, and shows neither a direction nor a slope.
C17_InsufficientData ==
    (dashboard.shown /\ Len(TrendScores) < 2) =>
       dashboard.trend.said \notin {"", "trend"}

\* notes_count * 5 + completed_tasks * 3 + avg * 0.2, truncated, for the
\* student id with the attempts at the indices in S (at least one)
Composite(id, S) ==
    (500 * Cardinality(S) * (activity[id].notes_count * 5
                             + activity[id].completed_tasks * 3)
     + SumAt(quizzes, S)) \div (500 * Cardinality(S))

\* C18: the composite score of every student on the leaderboard is
\* notes_count * 5 + completed_tasks * 3 + avg_quiz_percentage * 0.2 truncated
\* to an integer, and notes_count * 5 + completed_tasks * 3 without quizzes.
C18_CompositeScore ==
    dashboard.shown =>
       \A k \in 1..Len(dashboard.leaderboard) :
          dashboard.leaderboard[k].Overall =
             IF RowsOfStudent(dashboard.leaderboard[k].ID) = {}
             THEN activity[dashboard.leaderboard[k].ID].notes_count * 5
                  + activity[dashboard.leaderboard[k].ID].completed_tasks * 3
             ELSE Composite(dashboard.leaderboard[k].ID,
                            RowsOfStudent(dashboard.leaderboard[k].ID))

\* 10 notes, 4 completed tasks and three quizzes averaging 80 give 78; the
\* other student has no quiz
C18_Witness ==
    /\ dashboard.shown
    /\ \E k \in 1..Len(dashboard.leaderboard) :
          /\ dashboard.leaderboard[k].Notes = 10
          /\ dashboard.leaderboard[k].Completed = 4
          /\ dashboard.leaderboard[k].Quizzes = 3
          /\ Avg(quizzes, RowsOfStudent(dashboard.leaderboard[k].ID))
                = [num |-> 24000, den |-> 300]
          /\ dashboard.leaderboard[k].Overall = 78
    /\ \E k \in 1..Len(dashboard.leaderboard) :
          /\ dashboard.leaderboard[k].Quizzes = 0
          /\ dashboard.leaderboard[k].Overall = 15

\* C19: the leaderboard is in descending order of composite score, and
\* students with equal scores are in the order of their names.
C19_LeaderboardOrder ==
    dashboard.shown =>
       \A i, j \in 1..Len(dashboard.leaderboard) :
          i < j =>
             \/ dashboard.leaderboard[i].Overall > dashboard.leaderboard[j].Overall
             \/ /\ dashboard.leaderboard[i].Overall = dashboard.leaderboard[j].Overall
                /\ NameRank(dashboard.leaderboard[i].Name)
                      < NameRank(dashboard.leaderboard[j].Name)

\* the attempts of student id in one subject
OwnRows(id, subject) == RowsOfStudent(id) \cap RowsOfSubject(subject)

\* C20: with a student selected, the proficiency shown for a subject is the
\* average percentage of that student's own attempts in the subject.
C20_OwnProficiency ==
    (dashboard.shown /\ dashboard.quiz_student # 0) =>
       /\ DOMAIN dashboard.proficiency =
             {x \in Subjects : OwnRows(dashboard.quiz_student, x) # {}}
       /\ \A x \in DOMAIN dashboard.proficiency :
             dashboard.proficiency[x].avg_score.num
                * Avg(quizzes, OwnRows(dashboard.quiz_student, x)).den
             = Avg(quizzes, OwnRows(dashboard.quiz_student, x)).num
                  * dashboard.proficiency[x].avg_score.den

(***************************************************************************)
(* Properties of the parser on repeated entries and repeated markers.      *)
(***************************************************************************)
\* C21: of several answer entries for one ordinal the mapping keeps the letter
\* of the last one; every letter of the mapping is lower-case; the parser
\* raises no error.
C21_LastEntryWins ==
    \A r \in {p_inline, p_mcq} :
       r.ran =>
          /\ ~r.raised
          /\ \A k \in DOMAIN r.answer_dict : r.answer_dict[k] \in {"a", "b", "c", "d"}
          /\ \A i \in 1..Len(p_out.answers) :
                IF p_out.answers[i] = "absent"
                THEN i \notin DOMAIN r.answer_dict
                ELSE /\ i \in DOMAIN r.answer_dict
                     /\ r.answer_dict[i] = KeyLetter(i)

\* both parsers ran on an output whose first answer line comes twice, as
\* "1. b" and then "1. A"
C21_Witness ==
    /\ p_inline.ran /\ p_mcq.ran
    /\ Len(p_out.answers) >= 2
    /\ p_out.answers[1] = "twice" /\ p_out.answers[2] = "twice"
    /\ p_inline.answer_dict[1] = "a" /\ p_mcq.answer_dict[1] = "a"

\* C22: the answer segment is all text after the first marker, so an answer
\* line after a repeated marker contributes to the mapping like any other.
C22_AllAnswerLinesCount ==
    \A r \in ParserRuns :
       p_out.markers >= 1 =>
          \A i \in 1..Len(p_out.answers) :
             p_out.answers[i] \in {"ok", "upper"} =>
                /\ i \in DOMAIN r.answer_dict
                /\ r.answer_dict[i] = KeyLetter(i)

\* C23: every question boundary yields one record with the number of the
\* boundary as ordinal, also when its body is empty or has no options.
C23_RecordPerBoundary ==
    (p_inline.ran /\ p_out.markers >= 1) =>
       \A i \in 1..Len(p_out.blocks) :
          p_out.blocks[i] # "absent" =>
             \E k \in 1..Len(p_inline.questions) : Ordinal(p_inline.questions[k]) = i

(***************************************************************************)
(* Properties of the option extraction of the page.                        *)
(***************************************************************************)
\* the text with every letter in lower case
Lower(question) == [k \in 1..Len(question) |-> ToLower(question[k])]

\* C24: the label of an option is read in either case: a question whose
\* options are labelled A) to D) yields the options of the question labelled
\* a) to d).
C24_OptionLabelsAnyCase ==
    has_quiz =>
       \A i \in 1..Len(quiz_questions) :
          options(quiz_questions[i]) = options(Lower(quiz_questions[i]))

\* whether the text holds a lower-case letter a..d directly followed by ")"
HasLabel(question) ==
    \E p \in 1..(Len(question) - 1) : question[p] \in Letters /\ question[p + 1] = ")"

\* C28: the old method never adds an option: where the pattern finds nothing
\* the old method finds nothing either, and a question is shown as invalid
\* exactly when its text holds no lower-case label.
C28_FallbackNeverFires ==
    has_quiz =>
       \A i \in 1..Len(quiz_questions) :
          /\ Len(OptionLabelsFrom(quiz_questions[i], 1)) = 0
                => Len(FallbackOptions(quiz_questions[i])) = 0
          /\ i \notin Answerable <=> ~HasLabel(quiz_questions[i])

\* a quiz is shown with a question that has the options a) to d) and with a
\* question labelled A) to D), which is shown as invalid
C28_Witness ==
    /\ QuizShown
    /\ \E i, j \in 1..Len(quiz_questions) :
          /\ Labels(quiz_questions[i]) = Letters
          /\ j \notin Answerable
          /\ Contains(quiz_questions[j], <<"A", ")">>)

(***************************************************************************)
(* Properties of Submit Quiz and Generate Quiz.                            *)
(***************************************************************************)
\* C25: Submit Quiz grades and saves only when every question is answered: a
\* run with an unanswered question shows no score and inserts no row, and in
\* every saved attempt every answer is one of a, b, c, d.
C25_SubmitNeedsAllAnswers ==
    /\ [](\A k \in 1..Len(db) :
             \A i \in 1..Len(db[k].user_answers) : db[k].user_answers[i] \in Letters)
    /\ [][(\E i \in 1..Len(quiz_user_answers) : quiz_user_answers[i] = "")
             => (db' = db /\ report'.kind # "submitted")]_vars

\* with an attempt saved earlier, Submit Quiz on a partly answered quiz warned
C25_Witness ==
    /\ Len(db) = 1
    /\ report = [kind |-> "warning", what |-> "unanswered"]
    /\ \E i, j \in 1..Len(quiz_user_answers) :
          quiz_user_answers[i] = "" /\ quiz_user_answers[j] # ""

\* C26: a generated quiz is saved at most once: the run that follows a
\* successful Submit Quiz on the same quiz inserts no further row.
C26_SavedAtMostOnce ==
    [][(report.kind = "submitted" /\ report.saved) => db' = db]_vars

\* C27: a Generate that fails (input rejected, model call error, parse
\* exception, or no question parsed) leaves the quiz of the session as it was.
C27_FailedGenerateKeepsQuiz ==
    [][(/\ TAQuestionsShown
        /\ \/ ta_report'.kind = "error"
           \/ ta_report' = [kind |-> "warning", what |-> "fewer"] /\ ta_questions' = <<>>)
          => UNCHANGED <<ta_has_quiz, ta_questions, ta_answer_key, ta_user_answers>>]_vars

C30_WorkflowEnds ==
    (workflow.next = "coordinator") ~> (workflow.next = "end")

=============================================================================
